---- MODULE Spec2Model ----
(***************************************************************************)
(* A model of metrics-aggregator (main.go): the aggregation engine         *)
(* aggregateMetrics, the relabeling pipeline processAndSend and the        *)
(* collection cycle Collect / decodeAndSend of RemoteAggregator.           *)
(*                                                                         *)
(* Strings are TLA+ strings and Go's string concatenation is \o, so the    *)
(* group key is built character for character as the code builds it.       *)
(* A Go map is a function whose DOMAIN is the set of keys present.  A      *)
(* protobuf optional field (Gauge, Counter, Untyped of dto.Metric) is a    *)
(* sequence, <<>> when nil and <<v>> when set.  float64 sample values are  *)
(* small integers: rounding of floating-point addition is not modelled.    *)
(***************************************************************************)
EXTENDS Integers, Sequences, FiniteSets, TLC

\* The scrapes served at the same time: promhttp runs one goroutine per
\* request and the registry calls Collect from each.
Scrapes == {"s1", "s2"}

VARIABLES
    ra,        \* the RemoteAggregator (main.go:73-80), shared by all calls
    observed,  \* sample count of pcDuration{remote=ra.url}, shared
    started,   \* number of Collect calls entered
    pc,        \* per scrape: position of its call
    fetch,     \* per scrape: outcome of http.Get (main.go:89-99)
    decoded,   \* per scrape: what the Decode calls of the cycle returned
    mf,        \* per scrape: metricFamily (main.go:106, 122)
    agg,       \* per scrape: aggregatedLabels, aggregatedValue (main.go:134)
    todo,      \* per scrape: keys the range of main.go:136 has yet to visit
    ch         \* per scrape: the series its call has sent on ch

vars == <<ra, observed, started, pc, fetch, decoded, mf, agg, todo, ch>>

---------------------------------------------------------------------------
(* Bounds of the model. *)

MaxMetrics == 2     \* observations per family
MaxFamilies == 3    \* families one response body holds
MaxCycles == 2      \* Collect calls per behaviour

---------------------------------------------------------------------------
(* Go helpers. *)

EmptyMap == [n \in {} |-> ""]

\* slices.Contains
Contains(s, x) == \E i \in 1..Len(s) : s[i] = x

\* m[k] = v on a Go map
MapPut(m, k, v) == [x \in (DOMAIN m) \cup {k} |-> IF x = k THEN v ELSE m[x]]

\* m[k] read on a map[string]float64: the zero value when k is absent
MapGet0(m, k) == IF k \in DOMAIN m THEN m[k] ELSE 0

\* maps.Copy(dst, src): every entry of src is written over dst
mapsCopy(dst, src) ==
    [n \in (DOMAIN dst) \cup (DOMAIN src) |->
        IF n \in DOMAIN src THEN src[n] ELSE dst[n]]

\* the orders in which "for key := range m" can visit the key set S
RangeOrders(S) ==
    {o \in [1..Cardinality(S) -> S] :
        \A i, j \in 1..Cardinality(S) : i # j => o[i] # o[j]}

\* strings.HasPrefix
HasPrefix(s, prefix) ==
    Len(s) >= Len(prefix) /\ SubSeq(s, 1, Len(prefix)) = prefix

RECURSIVE SumMap(_, _)
SumMap(m, S) ==
    IF S = {} THEN 0
    ELSE LET k == CHOOSE x \in S : TRUE IN m[k] + SumMap(m, S \ {k})

---------------------------------------------------------------------------
(* The data read from upstream (dto.LabelPair, dto.Metric, dto.MetricFamily). *)

LabelPair(n, v) == [Name |-> n, Value |-> v]

\* The label pairs upstream series are built from.  The value "1,b=1" holds
\* the separators of the group key.
LabelPairs ==
    {LabelPair("a", "1"), LabelPair("a", "1,b=1"), LabelPair("b", "1")}

\* Label lists in every order, label names unique within one list.
LabelLists ==
    {<<>>}
    \cup {<<p>> : p \in LabelPairs}
    \cup {l \in {<<p, q>> : p \in LabelPairs, q \in LabelPairs} : l[1].Name # l[2].Name}

\* The label lists of the families run through the whole pipeline.
PipelineLabelLists ==
    {l \in LabelLists : \A i \in 1..Len(l) : l[i].Value = "1"}
    \cup {<<LabelPair("a", "2")>>, <<LabelPair("__x", "1")>>}

MetricTypes == {"COUNTER", "GAUGE", "UNTYPED"}

MetricValues == {1, 2}

\* A sample whose value is stored in the field t, the other fields nil.  The
\* text decoder stores the value in the field of the family's type.
Metric(labels, t, v) ==
    [Label   |-> labels,
     Gauge   |-> IF t = "GAUGE" THEN <<v>> ELSE <<>>,
     Counter |-> IF t = "COUNTER" THEN <<v>> ELSE <<>>,
     Untyped |-> IF t = "UNTYPED" THEN <<v>> ELSE <<>>]

\* The value upstream reported for a sample, whatever its kind.
SampleValue(metric) ==
    IF metric.Gauge # <<>> THEN metric.Gauge[1]
    ELSE IF metric.Counter # <<>> THEN metric.Counter[1]
    ELSE IF metric.Untyped # <<>> THEN metric.Untyped[1]
    ELSE 0

SeqsUpTo(S, n) == UNION {[1..k -> S] : k \in 0..n}

MetricLists(lists, values, t) ==
    SeqsUpTo({Metric(l, t, v) : l \in lists, v \in values}, MaxMetrics)

MetricFamily(name, t, metrics) ==
    [Name |-> name, Help |-> "help", Type |-> t, Metric |-> metrics]

\* Families as the text decoder builds them: samples in the field of the type.
Families(names, lists, values) ==
    UNION {{MetricFamily(n, t, ms) : n \in names, ms \in MetricLists(lists, values, t)} :
              t \in MetricTypes}

\* Families of the types `types' whose samples hold their value in a field of
\* `fields': dto.MetricFamily does not tie the Type to the fields of its
\* samples, so a direct caller can pass them.
FamiliesWithField(names, types, fields, lists, values) ==
    UNION {{MetricFamily(n, t, ms) :
                n \in names, t \in types, ms \in MetricLists(lists, values, k)} :
              k \in fields}

---------------------------------------------------------------------------
(* aggregateMetrics (main.go:163-188). *)

\* One pass of the inner loop body, main.go:173-176.
filterLabel(acc, label, aggregateWithOutLabels) ==
    IF ~Contains(aggregateWithOutLabels, label.Name)
    THEN [filteredLabels |-> MapPut(acc.filteredLabels, label.Name, label.Value),
          key |-> acc.key \o label.Name \o "=" \o label.Value \o ","]
    ELSE acc

\* The inner loop, main.go:169-177: key and filteredLabels of one metric.
RECURSIVE filterLabels(_, _)
filterLabels(labels, aggregateWithOutLabels) ==
    IF labels = <<>>
    THEN [filteredLabels |-> EmptyMap, key |-> ""]
    ELSE filterLabel(filterLabels(SubSeq(labels, 1, Len(labels) - 1),
                                  aggregateWithOutLabels),
                     labels[Len(labels)], aggregateWithOutLabels)

\* main.go:179
storeLabels(aggregatedLabels, key, filteredLabels) ==
    MapPut(aggregatedLabels, key, filteredLabels)

\* main.go:181-185
addValue(aggregatedValue, key, metric) ==
    IF metric.Gauge # <<>>
    THEN MapPut(aggregatedValue, key, MapGet0(aggregatedValue, key) + metric.Gauge[1])
    ELSE IF metric.Counter # <<>>
    THEN MapPut(aggregatedValue, key, MapGet0(aggregatedValue, key) + metric.Counter[1])
    ELSE aggregatedValue

RECURSIVE aggregateMetrics(_, _)
aggregateMetrics(metrics, aggregateWithOutLabels) ==
    IF metrics = <<>>
    THEN [aggregatedLabels |-> EmptyMap, aggregatedValue |-> EmptyMap]
    ELSE LET acc == aggregateMetrics(SubSeq(metrics, 1, Len(metrics) - 1),
                                     aggregateWithOutLabels)
             metric == metrics[Len(metrics)]
             f == filterLabels(metric.Label, aggregateWithOutLabels)
         IN  [aggregatedLabels |->
                  storeLabels(acc.aggregatedLabels, f.key, f.filteredLabels),
              aggregatedValue |-> addValue(acc.aggregatedValue, f.key, metric)]

---------------------------------------------------------------------------
(* RemoteAggregator.processAndSend (main.go:122-160). *)

\* main.go:130-132
outputName(addPrefix, name) ==
    IF addPrefix # "" THEN addPrefix \o name ELSE name

\* Mutation: the include-list is compared with the prefixed name.
filteredAfterPrefix(r, name) ==
    Len(r.includeMetrics) > 0
    /\ ~Contains(r.includeMetrics, outputName(r.addPrefix, name))

\* main.go:126
filtered(r, name) ==
    Len(r.includeMetrics) > 0 /\ ~Contains(r.includeMetrics, name)

\* Mutation: a label the group already has keeps its value.
mergeLabelsKeepExisting(groupLabels, addLabels) == mapsCopy(addLabels, groupLabels)

\* main.go:140: the label-set of the group after maps.Copy
mergeLabels(groupLabels, addLabels) == mapsCopy(groupLabels, addLabels)

\* main.go:142, 153: prometheus.NewDesc records an error for an empty metric
\* name and for a const label whose name is empty or starts with the reserved
\* prefix "__"; NewConstMetric then returns that error
descErr(name, labels) ==
    \/ name = ""
    \/ \E n \in DOMAIN labels : n = "" \/ HasPrefix(n, "__")

\* Mutation: the default case is missing, valueType keeps its zero value,
\* and the zero prometheus.ValueType is handled as the first one, a counter.
valueTypeNoDefault(type) ==
    CASE type = "GAUGE" -> "GaugeValue"
      [] OTHER -> "CounterValue"

\* main.go:144-151
valueType(type) ==
    CASE type = "GAUGE" -> "GaugeValue"
      [] type = "COUNTER" -> "CounterValue"
      [] OTHER -> "UntypedValue"

\* main.go:142-151: the const metric of one group
constMetric(r, family, a, key) ==
    [name      |-> outputName(r.addPrefix, family.Name),
     help      |-> family.Help,
     labels    |-> mergeLabels(a.aggregatedLabels[key], r.addLabels),
     valueType |-> valueType(family.Type),
     value     |-> a.aggregatedValue[key]]

\* main.go:136-159: the loop over aggregatedValue, visiting keys in `order'
RECURSIVE sendInOrder(_, _, _, _)
sendInOrder(r, family, a, order) ==
    IF order = <<>> THEN <<>>
    ELSE LET sent == sendInOrder(r, family, a, SubSeq(order, 1, Len(order) - 1))
             m == constMetric(r, family, a, order[Len(order)])
         IN  IF descErr(m.name, m.labels) THEN sent ELSE Append(sent, m)

\* Every sequence of series a whole call can have sent when it returns: Go
\* does not fix the order of a range over a map.  The steps of the call are
\* the actions ProcessFiltered .. ProcessReturn below.
processAndSend(r, family) ==
    IF filtered(r, family.Name) THEN {<<>>}
    ELSE LET a == aggregateMetrics(family.Metric, r.aggregateWithOutLabels)
         IN  {sendInOrder(r, family, a, o) : o \in RangeOrders(DOMAIN a.aggregatedValue)}

\* Mutation: the duration is not observed.
updateRunTimeSkipped(count) == count

\* main.go:190-192: one more sample in pcDuration{remote=remoteURL}
updateRunTime(count) == count + 1

---------------------------------------------------------------------------
(* Configurations (main.go:201-214) and upstream snapshots. *)

RemoteAggregator(include, without, prefix, labels) ==
    [url                    |-> "http://upstream/metrics",
     includeMetrics         |-> include,
     aggregateWithOutLabels |-> without,
     addPrefix              |-> prefix,
     addLabels              |-> labels]

\* --aggregate-without-label is required: at least one name, "z" being a
\* name no upstream series carries
WithoutLists == {<<"z">>, <<"a">>, <<"b">>, <<"a", "b">>}

IncludeLists == {<<>>, <<"m">>, <<"pm">>}

Prefixes == {"", "p"}


AddLabelMaps ==
    {EmptyMap, [n \in {"a", "b"} |-> "9"], [n \in {"c"} |-> "9"],
     [n \in {""} |-> "9"], [n \in {"__x"} |-> "9"]}

FamilyNames == {"m", "pm"}

\* The zero dto.MetricFamily (main.go:106); GetType() of a nil type is COUNTER
ZeroFamily == [Name |-> "", Help |-> "", Type |-> "COUNTER", Metric |-> <<>>]

NoAgg == [aggregatedLabels |-> EmptyMap, aggregatedValue |-> EmptyMap]

\* Inputs of aggregateMetrics
AggFamilies == Families({"m"}, LabelLists, MetricValues)

\* Inputs of processAndSend
PipelineConfigs ==
    {RemoteAggregator(i, w, p, l) :
        i \in IncludeLists, w \in WithoutLists, p \in Prefixes, l \in AddLabelMaps}

\* The family of no name, which a direct caller can pass
NamelessFamilies == Families({""}, {<<LabelPair("a", "1")>>}, {1})

\* Families of another kind than counter and gauge whose samples hold a
\* gauge or a counter value
OtherKindFamilies ==
    FamiliesWithField({"m"}, {"UNTYPED", "HISTOGRAM"}, {"GAUGE", "COUNTER"},
                      PipelineLabelLists, {1})

PipelineFamilies ==
    Families(FamilyNames, PipelineLabelLists, {1})
    \cup NamelessFamilies \cup OtherKindFamilies

\* Configurations and families of the collection cycles.  Under the first
\* configuration every group is sent; under the second "pm" is not included
\* and the extra label of reserved name makes every series of "m" fail.
CycleConfigs ==
    {RemoteAggregator(<<>>, <<"b">>, "p", [n \in {"c"} |-> "9"]),
     RemoteAggregator(<<"m">>, <<"b">>, "p", [n \in {"__x"} |-> "9"])}

\* "m" aggregates into two groups, "pm" into one
CycleFamilies ==
    {MetricFamily("m", "COUNTER",
                  <<Metric(<<LabelPair("a", "1")>>, "COUNTER", 1),
                    Metric(<<LabelPair("a", "1"), LabelPair("b", "1")>>, "COUNTER", 2),
                    Metric(<<LabelPair("a", "2")>>, "COUNTER", 1)>>),
     MetricFamily("pm", "GAUGE",
                  <<Metric(<<LabelPair("a", "1")>>, "GAUGE", 1),
                    Metric(<<LabelPair("a", "1"), LabelPair("b", "1")>>, "GAUGE", 2)>>)}

\* What one Decode call returns: a family, or an error
Decoded(family) == [ok |-> TRUE, family |-> family]
Malformed == [ok |-> FALSE, family |-> ZeroFamily]

\* The caller of the direct calls
Caller == "s1"

\* One value for the caller, another for every other scrape
OfCaller(v, other) == [s \in Scrapes |-> IF s = Caller THEN v ELSE other]

---------------------------------------------------------------------------
(* Direct calls of aggregateMetrics, as main_test.go:117 makes them. *)

InitAgg ==
    /\ ra \in {RemoteAggregator(<<>>, w, "", EmptyMap) : w \in WithoutLists}
    /\ mf \in {OfCaller(f, ZeroFamily) : f \in AggFamilies}
    /\ pc = OfCaller("call", "idle")
    /\ fetch = OfCaller("none", "none")
    /\ decoded = OfCaller(<<>>, <<>>)
    /\ agg = OfCaller(NoAgg, NoAgg)
    /\ todo = OfCaller({}, {})
    /\ ch = OfCaller(<<>>, <<>>)
    /\ observed = 0 /\ started = 0

CallAggregateMetrics ==
    /\ pc[Caller] = "call"
    /\ agg' = [agg EXCEPT ![Caller] =
                  aggregateMetrics(mf[Caller].Metric, ra.aggregateWithOutLabels)]
    /\ pc' = [pc EXCEPT ![Caller] = "returned"]
    /\ UNCHANGED <<ra, observed, started, fetch, decoded, mf, todo, ch>>

NextAgg == CallAggregateMetrics

SpecAgg == InitAgg /\ [][NextAgg]_vars

---------------------------------------------------------------------------
(* processAndSend (main.go:122-160), one step per wait: the call computes   *)
(* up to its next send on ch, and each send is a step of its own.           *)

\* main.go:124-128: the family is not in the include-list, the call returns
ProcessFiltered(s) ==
    /\ pc[s] = "process"
    /\ filtered(ra, mf[s].Name)
    /\ pc' = [pc EXCEPT ![s] = IF fetch[s] = "ok" THEN "decode" ELSE "returned"]
    /\ UNCHANGED <<ra, observed, started, fetch, decoded, mf, agg, todo, ch>>

\* main.go:124-136: the family is aggregated and the range starts
ProcessAggregate(s) ==
    /\ pc[s] = "process"
    /\ ~filtered(ra, mf[s].Name)
    /\ agg' = [agg EXCEPT ![s] =
                  aggregateMetrics(mf[s].Metric, ra.aggregateWithOutLabels)]
    /\ todo' = [todo EXCEPT ![s] = DOMAIN agg'[s].aggregatedValue]
    /\ pc' = [pc EXCEPT ![s] = "range"]
    /\ UNCHANGED <<ra, observed, started, fetch, decoded, mf, ch>>

\* aggregatedLabels[key] after maps.Copy has written into it (main.go:140)
copied(a, key, labels) ==
    [a EXCEPT !.aggregatedLabels = MapPut(a.aggregatedLabels, key, labels)]

\* main.go:136-158: one pass of the loop that ends in the send
SendMetric(s) ==
    /\ pc[s] = "range"
    /\ \E key \in todo[s] :
        LET m == constMetric(ra, mf[s], agg[s], key)
        IN  /\ ~descErr(m.name, m.labels)
            /\ ch' = [ch EXCEPT ![s] = Append(ch[s], m)]
            /\ agg' = [agg EXCEPT ![s] = copied(agg[s], key, m.labels)]
            /\ todo' = [todo EXCEPT ![s] = todo[s] \ {key}]
    /\ UNCHANGED <<ra, observed, started, pc, fetch, decoded, mf>>

\* main.go:136-156: one pass of the loop that ends in the logged error
SkipMetric(s) ==
    /\ pc[s] = "range"
    /\ \E key \in todo[s] :
        LET m == constMetric(ra, mf[s], agg[s], key)
        IN  /\ descErr(m.name, m.labels)
            /\ agg' = [agg EXCEPT ![s] = copied(agg[s], key, m.labels)]
            /\ todo' = [todo EXCEPT ![s] = todo[s] \ {key}]
    /\ UNCHANGED <<ra, observed, started, pc, fetch, decoded, mf, ch>>

\* main.go:159-160: the range is over, the call returns
ProcessReturn(s) ==
    /\ pc[s] = "range"
    /\ todo[s] = {}
    /\ pc' = [pc EXCEPT ![s] = IF fetch[s] = "ok" THEN "decode" ELSE "returned"]
    /\ UNCHANGED <<ra, observed, started, fetch, decoded, mf, agg, todo, ch>>

---------------------------------------------------------------------------
(* Direct calls of processAndSend on one family. *)

InitPipeline ==
    /\ ra \in PipelineConfigs
    /\ mf \in {OfCaller(f, ZeroFamily) : f \in PipelineFamilies}
    /\ pc = OfCaller("process", "idle")
    /\ fetch = OfCaller("none", "none")
    /\ decoded = OfCaller(<<>>, <<>>)
    /\ agg = OfCaller(NoAgg, NoAgg)
    /\ todo = OfCaller({}, {})
    /\ ch = OfCaller(<<>>, <<>>)
    /\ observed = 0 /\ started = 0

NextPipeline ==
    \/ ProcessFiltered(Caller)
    \/ ProcessAggregate(Caller)
    \/ SendMetric(Caller)
    \/ SkipMetric(Caller)
    \/ ProcessReturn(Caller)

SpecPipeline == InitPipeline /\ [][NextPipeline]_vars

---------------------------------------------------------------------------
(* Collection cycles: Collect (main.go:86-102) and decodeAndSend            *)
(* (main.go:104-120).  Every scrape runs its own call; the calls overlap.   *)

Init ==
    /\ ra \in CycleConfigs
    /\ pc = [s \in Scrapes |-> "idle"]
    /\ fetch = [s \in Scrapes |-> "none"]
    /\ decoded = [s \in Scrapes |-> <<>>]
    /\ mf = [s \in Scrapes |-> ZeroFamily]
    /\ agg = [s \in Scrapes |-> NoAgg]
    /\ todo = [s \in Scrapes |-> {}]
    /\ ch = [s \in Scrapes |-> <<>>]
    /\ observed = 0 /\ started = 0

\* main.go:86-89: Collect is entered, updateRunTime is deferred with the
\* start time, and the call waits in http.Get
CollectEnter(s) ==
    /\ pc[s] = "idle" /\ started < MaxCycles
    /\ started' = started + 1
    /\ pc' = [pc EXCEPT ![s] = "get"]
    /\ fetch' = [fetch EXCEPT ![s] = "pending"]
    /\ decoded' = [decoded EXCEPT ![s] = <<>>]
    /\ mf' = [mf EXCEPT ![s] = ZeroFamily]
    /\ agg' = [agg EXCEPT ![s] = NoAgg]
    /\ todo' = [todo EXCEPT ![s] = {}]
    /\ ch' = [ch EXCEPT ![s] = <<>>]
    /\ UNCHANGED <<ra, observed>>

\* main.go:89-93: http.Get fails; Collect returns, the deferred call runs
GetError(s) ==
    /\ pc[s] = "get"
    /\ fetch' = [fetch EXCEPT ![s] = "error"]
    /\ observed' = updateRunTime(observed)
    /\ pc' = [pc EXCEPT ![s] = "idle"]
    /\ UNCHANGED <<ra, started, decoded, mf, agg, todo, ch>>

\* main.go:89-99: the response is not 200 OK; Collect returns
GetBadStatus(s) ==
    /\ pc[s] = "get"
    /\ fetch' = [fetch EXCEPT ![s] = "status"]
    /\ observed' = updateRunTime(observed)
    /\ pc' = [pc EXCEPT ![s] = "idle"]
    /\ UNCHANGED <<ra, started, decoded, mf, agg, todo, ch>>

\* main.go:89-109: 200 OK; decodeAndSend waits in its first Decode
GetOK(s) ==
    /\ pc[s] = "get"
    /\ fetch' = [fetch EXCEPT ![s] = "ok"]
    /\ pc' = [pc EXCEPT ![s] = "decode"]
    /\ UNCHANGED <<ra, observed, started, decoded, mf, agg, todo, ch>>

\* main.go:109, 118: Decode returns the next family of the body,
\* processAndSend is called
DecodeFamily(s) ==
    /\ pc[s] = "decode" /\ Len(decoded[s]) < MaxFamilies
    /\ \E f \in CycleFamilies :
        /\ decoded' = [decoded EXCEPT ![s] = Append(decoded[s], Decoded(f))]
        /\ mf' = [mf EXCEPT ![s] = f]
    /\ pc' = [pc EXCEPT ![s] = "process"]
    /\ UNCHANGED <<ra, observed, started, fetch, agg, todo, ch>>

\* main.go:110-112: io.EOF ends the loop; Collect returns, the deferred
\* call runs
DecodeEOF(s) ==
    /\ pc[s] = "decode"
    /\ observed' = updateRunTime(observed)
    /\ pc' = [pc EXCEPT ![s] = "idle"]
    /\ UNCHANGED <<ra, started, fetch, decoded, mf, agg, todo, ch>>

\* Mutation: the loop goes on decoding after the error.
DecodeErrorContinue(s) ==
    /\ pc[s] = "decode" /\ Len(decoded[s]) <= MaxFamilies
    /\ decoded' = [decoded EXCEPT ![s] = Append(decoded[s], Malformed)]
    /\ UNCHANGED <<ra, observed, started, pc, fetch, mf, agg, todo, ch>>

\* main.go:113-116: a decode error, after any number of families, ends the
\* loop; Collect returns, the deferred call runs
DecodeError(s) ==
    /\ pc[s] = "decode"
    /\ decoded' = [decoded EXCEPT ![s] = Append(decoded[s], Malformed)]
    /\ observed' = updateRunTime(observed)
    /\ pc' = [pc EXCEPT ![s] = "idle"]
    /\ UNCHANGED <<ra, started, fetch, mf, agg, todo, ch>>

Next ==
    \E s \in Scrapes :
        \/ CollectEnter(s)
        \/ GetError(s)
        \/ GetBadStatus(s)
        \/ GetOK(s)
        \/ DecodeFamily(s)
        \/ DecodeEOF(s)
        \/ DecodeError(s)
        \/ ProcessFiltered(s)
        \/ ProcessAggregate(s)
        \/ SendMetric(s)
        \/ SkipMetric(s)
        \/ ProcessReturn(s)

Spec == Init /\ [][Next]_vars

---------------------------------------------------------------------------
(* Properties of aggregateMetrics, checked under SpecAgg. *)

Without == ra.aggregateWithOutLabels

\* The sum of the values upstream reported for the samples of a list.
RECURSIVE SumSamples(_)
SumSamples(metrics) ==
    IF metrics = <<>> THEN 0
    ELSE SumSamples(SubSeq(metrics, 1, Len(metrics) - 1))
         + SampleValue(metrics[Len(metrics)])

\* The labels of a sample that are not dropped, as a set of (name, value) pairs.
Surviving(metric) ==
    {<<metric.Label[i].Name, metric.Label[i].Value>> :
        i \in {k \in 1..Len(metric.Label) : ~Contains(Without, metric.Label[k].Name)}}

\* The same labels as a map from name to value.
SurvivingMap(metric) ==
    [n \in {p[1] : p \in Surviving(metric)} |->
        (CHOOSE p \in Surviving(metric) : p[1] = n)[2]]

KeyOf(metric) == filterLabels(metric.Label, Without).key

\* The family, the result and the series of the direct call.
Family == mf[Caller]
Result == agg[Caller]
Sent == ch[Caller]
Returned == pc[Caller] = "returned"

AllNamesDropped ==
    \A i \in 1..Len(Family.Metric) : \A k \in 1..Len(Family.Metric[i].Label) :
        Contains(Without, Family.Metric[i].Label[k].Name)

\* C1: the values of the returned groups add up to the sum of the values of
\* all input observations, whatever the kind of the family.
C1_ValueConservation ==
    Returned =>
        SumMap(Result.aggregatedValue, DOMAIN Result.aggregatedValue)
            = SumSamples(Family.Metric)

\* C2: two observations get the same group key exactly when their surviving
\* labels are equal as sets of (name, value) pairs, in whatever order the
\* observations list them.
C2_SameKeyIffSameLabelSet ==
    Returned =>
        \A i, j \in 1..Len(Family.Metric) :
            (KeyOf(Family.Metric[i]) = KeyOf(Family.Metric[j]))
                <=> (Surviving(Family.Metric[i]) = Surviving(Family.Metric[j]))

\* C3: with every occurring label name dropped the result is exactly one
\* group, of empty key and empty label-set, whose value is the sum of the
\* values of all observations; for every observation list, the empty one
\* included.
C3_SingleEmptyGroupAlways ==
    (Returned /\ AllNamesDropped) =>
        /\ DOMAIN Result.aggregatedLabels = {""}
        /\ DOMAIN Result.aggregatedValue = {""}
        /\ Result.aggregatedLabels[""] = EmptyMap
        /\ Result.aggregatedValue[""] = SumSamples(Family.Metric)

\* C9: the label-set stored for a key is the surviving label-set of the first
\* observation, in input order, that produced the key.
C9_LabelsOfFirstObservation ==
    Returned =>
        \A key \in DOMAIN Result.aggregatedLabels :
            LET first == CHOOSE i \in 1..Len(Family.Metric) :
                            /\ KeyOf(Family.Metric[i]) = key
                            /\ \A j \in 1..(i - 1) : KeyOf(Family.Metric[j]) # key
            IN  Result.aggregatedLabels[key] = SurvivingMap(Family.Metric[first])

---------------------------------------------------------------------------
(* Properties of processAndSend, checked under SpecPipeline. *)

\* C4: every series sent carries every configured extra label with its
\* configured value, also when aggregation retained a label of that name and
\* when the name is in the drop-label list.
C4_ExtraLabelsOnEverySeries ==
    \A i \in 1..Len(Sent) : \A n \in DOMAIN ra.addLabels :
        n \in DOMAIN Sent[i].labels /\ Sent[i].labels[n] = ra.addLabels[n]

\* The call returned having sent a series whose group retained a label under
\* another value than the extra label of that name, and a second extra label
\* is in the drop list.
C4_Witness ==
    /\ Returned /\ Sent # <<>>
    /\ \E n \in DOMAIN ra.addLabels : Contains(Without, n)
    /\ \E i \in 1..Len(Family.Metric) : \E p \in Surviving(Family.Metric[i]) :
        p[1] \in DOMAIN ra.addLabels /\ p[2] # ra.addLabels[p[1]]

\* C5: with a non-empty include-list a family whose un-prefixed name is not
\* in the list sends nothing, and a family whose name is in the list sends
\* what it sends under an empty include-list.
C5_IncludeList ==
    /\ (Len(ra.includeMetrics) > 0 /\ ~Contains(ra.includeMetrics, Family.Name))
          => Sent = <<>>
    /\ Returned =>
        IF Len(ra.includeMetrics) > 0 /\ ~Contains(ra.includeMetrics, Family.Name)
        THEN Sent = <<>>
        ELSE Sent \in processAndSend([ra EXCEPT !.includeMetrics = <<>>], Family)

\* A counter family with observations is suppressed although its prefixed
\* name is in the include-list.
C5_Witness ==
    /\ Returned /\ Sent = <<>>
    /\ Family.Type = "COUNTER" /\ Family.Metric # <<>>
    /\ ra.addPrefix # "" /\ DOMAIN ra.addLabels = {}
    /\ ~Contains(ra.includeMetrics, Family.Name)
    /\ Contains(ra.includeMetrics, ra.addPrefix \o Family.Name)

\* C8: the series of a counter family are counters, those of a gauge family
\* gauges, those of a family of any other kind untyped, and each carries the
\* value and the label-set of one group of the aggregation.
C8_KindPassthrough ==
    \A i \in 1..Len(Sent) :
        /\ Sent[i].valueType = (IF Family.Type = "COUNTER" THEN "CounterValue"
                                ELSE IF Family.Type = "GAUGE" THEN "GaugeValue"
                                ELSE "UntypedValue")
        /\ LET a == aggregateMetrics(Family.Metric, Without)
           IN  \E key \in DOMAIN a.aggregatedValue :
                   /\ Sent[i].value = a.aggregatedValue[key]
                   /\ Sent[i].labels = mergeLabels(a.aggregatedLabels[key], ra.addLabels)

\* A family of another kind than counter and gauge, holding two differently
\* labelled gauge observations, sent one untyped series whose value is their
\* sum.
C8_Witness ==
    /\ Returned /\ Family.Type \notin {"COUNTER", "GAUGE"}
    /\ Len(Family.Metric) = 2
    /\ Family.Metric[1].Label # Family.Metric[2].Label
    /\ Family.Metric[1].Gauge # <<>>
    /\ Len(Sent) = 1 /\ Sent[1].valueType = "UntypedValue" /\ Sent[1].value = 2

\* C10: the series one call sends for a family have pairwise distinct final
\* label-sets.
C10_DistinctLabelSets ==
    \A i, j \in 1..Len(Sent) : i # j => Sent[i].labels # Sent[j].labels

---------------------------------------------------------------------------
(* Properties of the collection cycle, checked under Spec. *)

FetchFailed(s) == fetch[s] \in {"error", "status"}

InFlight == {s \in Scrapes : pc[s] # "idle"}

\* The families of the entries 1..n of what Decode returned.
FamiliesOf(d, n) == [i \in 1..n |-> d[i].family]

\* Every sequence of series that processing the families of fams, one after
\* the other, can send.
RECURSIVE AllEmissions(_, _)
AllEmissions(r, fams) ==
    IF fams = <<>> THEN {<<>>}
    ELSE {p \o e : p \in AllEmissions(r, SubSeq(fams, 1, Len(fams) - 1)),
                   e \in processAndSend(r, fams[Len(fams)])}

\* C6: every cycle observes its duration exactly once, when it returns: the
\* observations are as many as the cycles that have returned.  A cycle whose
\* fetch fails has sent no series, and a cycle sends nothing once it has
\* observed its duration.
C6_DurationOncePerCycle ==
    /\ [](/\ observed + Cardinality(InFlight) = started
          /\ \A s \in Scrapes : FetchFailed(s) => (pc[s] = "idle" /\ ch[s] = <<>>))
    /\ [][/\ observed' # observed =>
                /\ observed' = observed + 1
                /\ \E s \in Scrapes :
                    /\ pc[s] # "idle" /\ pc'[s] = "idle" /\ ch'[s] = ch[s]
                    /\ fetch'[s] = "ok" => pc[s] = "decode"
          /\ \A s \in Scrapes :
                (pc[s] = "idle" /\ pc'[s] = "idle") => ch'[s] = ch[s]]_vars

\* A fetch has failed while another cycle, which has sent a series, is still
\* in flight; the failed cycle has observed its duration, the other has not.
C6_Witness ==
    \E s, t \in Scrapes :
        /\ pc[s] = "idle" /\ FetchFailed(s) /\ ch[s] = <<>>
        /\ pc[t] = "range" /\ ch[t] # <<>>
        /\ started = 2 /\ observed = 1

\* C7: once a Decode call of a cycle has returned an error, the cycle has
\* returned, the error is the last thing it decoded, and what it has sent is
\* what the families decoded before the error send, in decode order.
C7_DecodedBeforeErrorProcessed ==
    \A s \in Scrapes :
        (\E k \in 1..Len(decoded[s]) : ~decoded[s][k].ok) =>
            /\ pc[s] = "idle"
            /\ \A k \in 1..(Len(decoded[s]) - 1) : decoded[s][k].ok
            /\ ch[s] \in AllEmissions(ra, FamiliesOf(decoded[s], Len(decoded[s]) - 1))

\* Two different families were decoded, the first sent two series and the
\* second one, then the third Decode call returned an error.
C7_Witness ==
    \E s \in Scrapes :
        /\ pc[s] = "idle" /\ fetch[s] = "ok" /\ Len(decoded[s]) = 3
        /\ decoded[s][1].ok /\ decoded[s][2].ok /\ ~decoded[s][3].ok
        /\ decoded[s][1].family.Name # decoded[s][2].family.Name
        /\ Len(ch[s]) = 3
        /\ ch[s][1].name = ch[s][2].name /\ ch[s][2].name # ch[s][3].name

====
